---- MODULE Spec2Model ----
(***************************************************************************)
(* Model of substring_search.c: a Boyer-Moore (bad-character rule) search  *)
(* of a memory-mapped file, split into chunks that are scanned by worker   *)
(* threads (search) started and joined by the coordinator (search_in_file).*)
(*                                                                         *)
(* Conventions.  A C string is a sequence of byte values 0..255; C index k *)
(* is element k+1 of the sequence.  A pointer into the mapped view is the  *)
(* offset of the byte it points to.  A handle is "none" (never acquired),  *)
(* "open" or "closed".                                                     *)
(***************************************************************************)
EXTENDS Integers, Sequences, FiniteSets, TLC

UNIQUE_CHARS == 256
MAX_THREADS == 16

\* Bounds of the model.
MaxLen == 3       \* longest file content among the exhaustively enumerated files
MaxPat == 2       \* longest pattern
MaxGarbage == 3   \* magnitude of an int read from outside the shift table

FileBytes == {0, 97, 98, 200}
PatternBytes == {97, 98, 200}

Max(a, b) == IF a >= b THEN a ELSE b

SeqsUpTo(S, n) == UNION {[1..k -> S] : k \in 0..n}

RECURSIVE Fill(_, _)
Fill(c, n) == IF n = 0 THEN <<>> ELSE <<c>> \o Fill(c, n - 1)

\* File contents of MAX_THREADS bytes and more, each with its pattern: two that
\* are searched in MAX_THREADS chunks, one that falls back to a single chunk.
LongInputs ==
    { <<(<<97, 98>> \o Fill(97, 2 * MAX_THREADS - 2)), <<98, 97>>>>,
      <<(Fill(98, MAX_THREADS - 1) \o <<97, 97>>), <<97, 97>>>>,
      <<(Fill(98, 2) \o <<97, 97>> \o Fill(98, 6) \o <<97, 97>>
            \o Fill(98, 2 * MAX_THREADS - 11)), <<97, 97>>>> }

Inputs ==
    (SeqsUpTo(FileBytes, MaxLen) \X SeqsUpTo(PatternBytes, MaxPat)) \cup LongInputs

Slots == 0..(MAX_THREADS - 1)

VARIABLES
    fileContent,       \* the bytes of the file, as the mapped view shows them
    substring,         \* the pattern argument, zero-terminated
    pc,                \* position of search_in_file
    file, fileMapping, view,   \* the three input-source resources
    textLength, patternLength,
    badCharShiftTable, \* the coordinator's table
    chunkSize, extra, numThreads,
    threadIndex,       \* loop variable of the dispatch and of the join loop
    searchArgs,        \* SearchArgs searchArgs[MAX_THREADS]
    threads,           \* HANDLE threads[MAX_THREADS]
    worker,            \* per slot: "none", "running", "done"
    found_at,          \* the coordinator's local found_at (line 322)
    outcome,           \* what search_in_file printed
    scan               \* per slot: the locals of a search call followed step by step

vars == <<fileContent, substring, pc, file, fileMapping, view, textLength,
          patternLength, badCharShiftTable, chunkSize, extra, numThreads,
          threadIndex, searchArgs, threads, worker, found_at, outcome, scan>>

\* char is signed on the documented build (gcc, x86): a byte above 127 is negative.
SignedChar(c) == IF c >= 128 THEN c - 256 ELSE c

\* Byte k of a mapped view or of a C string.  The file's bytes are followed by the
\* zero fill of the view's last page (a string by its terminator).
byteAt(s, k) == IF k < Len(s) THEN s[k + 1] ELSE 0

RECURSIVE strlenFrom(_, _)
strlenFrom(s, k) == IF byteAt(s, k) = 0 THEN k ELSE strlenFrom(s, k + 1)

strlen(s) == strlenFrom(s, 0)

\* An int array of UNIQUE_CHARS entries is held as the value its initialising loop
\* gave every entry (fill) and the entries assigned since (set).  NoTable is the
\* array before either loop has run.
NoTable == [fill |-> 0, set |-> <<>>]

entry(tbl, characterIndex) ==
    IF characterIndex \in DOMAIN tbl.set THEN tbl.set[characterIndex] ELSE tbl.fill

RECURSIVE tableFill(_, _, _, _)
tableFill(tbl, pattern, patternIndex, m) ==
    IF patternIndex < m
    THEN tableFill([tbl EXCEPT !.set = (byteAt(pattern, patternIndex) :> patternIndex) @@ @],
                   pattern, patternIndex + 1, m)
    ELSE tbl

\* generateBadCharacterShiftTable with its first loop storing 0 instead of -1.
generateBadCharacterShiftTable_ZeroInit(pattern, m) ==
    tableFill([fill |-> 0, set |-> <<>>], pattern, 0, m)

generateBadCharacterShiftTable(pattern, m) ==
    tableFill([fill |-> -1, set |-> <<>>], pattern, 0, m)

\* An int read from outside the table (negative index): any value.
GarbageInts == (0 - MaxGarbage)..MaxGarbage

\* badCharShiftTable[text[k]] as the scanner indexes it: by the plain char.
tableLookup(tbl, c) ==
    IF SignedChar(c) \in 0..(UNIQUE_CHARS - 1)
    THEN {entry(tbl, SignedChar(c))}
    ELSE GarbageInts

\* The inner loop of search: the pattern index at which it stops.  text is the
\* offset of the chunk in the view.
RECURSIVE innerLoop(_, _, _, _, _)
innerLoop(content, text, pattern, patternShift, patternIndex) ==
    IF patternIndex >= 0
       /\ byteAt(pattern, patternIndex) = byteAt(content, text + patternShift + patternIndex)
    THEN innerLoop(content, text, pattern, patternShift, patternIndex - 1)
    ELSE patternIndex

\* The outer loop of search from patternShift: the values found_at can get.
RECURSIVE outerLoop(_, _, _, _)
outerLoop(content, pattern, args, patternShift) ==
    IF patternShift <= args.textLength - args.patternLength
    THEN LET patternIndex == innerLoop(content, args.text, pattern, patternShift,
                                       args.patternLength - 1)
         IN  IF patternIndex < 0
             THEN {patternShift}
             ELSE UNION { outerLoop(content, pattern, args,
                              patternShift + Max(1, patternIndex - g)) :
                          g \in tableLookup(args.badCharShiftTable,
                                   byteAt(content, args.text + patternShift + patternIndex)) }
    ELSE {-1}

\* The offsets into the chunk that search reads from patternShift on (lines 96
\* and 116), over every run it can take.
RECURSIVE textReadsFrom(_, _, _, _)
textReadsFrom(content, pattern, args, patternShift) ==
    IF patternShift <= args.textLength - args.patternLength
    THEN LET patternIndex == innerLoop(content, args.text, pattern, patternShift,
                                       args.patternLength - 1)
         IN  {patternShift + k : k \in Max(0, patternIndex)..(args.patternLength - 1)}
             \cup
             (IF patternIndex < 0
              THEN {}
              ELSE UNION { textReadsFrom(content, pattern, args,
                               patternShift + Max(1, patternIndex - g)) :
                           g \in tableLookup(args.badCharShiftTable,
                                    byteAt(content, args.text + patternShift + patternIndex)) })
    ELSE {}

textReads(content, pattern, args) == textReadsFrom(content, pattern, args, 0)

\* search on the SearchArgs args: text points into content, pattern at pattern.
searchResults(content, pattern, args) == outerLoop(content, pattern, args, 0)

\* The locals of search before its line 82 has run.
NoScan == [patternShift |-> 0, iterations |-> 0]

\* A SearchArgs no loop iteration has filled in.
NoArgs == [text |-> 0, textLength |-> 0, patternLength |-> 0,
           badCharShiftTable |-> NoTable, found_at |-> 0]

Init ==
    /\ \E in \in Inputs :
          /\ fileContent = in[1]
          /\ substring = in[2] \o <<0>>
    /\ pc = "open"
    /\ file = "none" /\ fileMapping = "none" /\ view = "none"
    /\ textLength = 0 /\ patternLength = 0
    /\ badCharShiftTable = NoTable
    /\ chunkSize = 0 /\ extra = 0 /\ numThreads = 0
    /\ threadIndex = 0
    /\ searchArgs = [i \in Slots |-> NoArgs]
    /\ threads = [i \in Slots |-> "none"]
    /\ worker = [i \in Slots |-> "none"]
    /\ found_at = -1
    /\ outcome = "none"
    /\ scan = [i \in Slots |-> NoScan]

\* Lines 186-203.
CreateFile ==
    /\ pc = "open"
    /\ \/ /\ file' = "open"
          /\ pc' = "map"
          /\ UNCHANGED outcome
       \/ /\ \E error \in {"File not found", "Access denied", "An unexpected error occurred opening"} :
                outcome' = error
          /\ pc' = "done"
          /\ UNCHANGED file
    /\ UNCHANGED <<scan, fileContent, substring, fileMapping, view, textLength,
                   patternLength, badCharShiftTable, chunkSize, extra, numThreads,
                   threadIndex, searchArgs, threads, worker, found_at>>

\* Lines 206-213.
CreateFileMapping ==
    /\ pc = "map"
    /\ \/ /\ fileMapping' = "open"
          /\ pc' = "view"
          /\ UNCHANGED <<file, outcome>>
       \/ /\ outcome' = "Could not create file mapping"
          /\ file' = "closed"
          /\ pc' = "done"
          /\ UNCHANGED fileMapping
    /\ UNCHANGED <<scan, fileContent, substring, view, textLength,
                   patternLength, badCharShiftTable, chunkSize, extra, numThreads,
                   threadIndex, searchArgs, threads, worker, found_at>>

\* Lines 216-224.
MapViewOfFile ==
    /\ pc = "view"
    /\ \/ /\ view' = "open"
          /\ pc' = "validate"
          /\ UNCHANGED <<file, fileMapping, outcome>>
       \/ /\ outcome' = "Could not map view of file"
          /\ fileMapping' = "closed"
          /\ file' = "closed"
          /\ pc' = "done"
          /\ UNCHANGED view
    /\ UNCHANGED <<scan, fileContent, substring, textLength,
                   patternLength, badCharShiftTable, chunkSize, extra, numThreads,
                   threadIndex, searchArgs, threads, worker, found_at>>

\* Validate without the empty-pattern check of lines 236-240.
Validate_NoPatternCheck ==
    /\ pc = "validate"
    /\ textLength' = strlen(fileContent)
    /\ patternLength' = strlen(substring)
    /\ IF textLength' = 0
       THEN outcome' = "File is empty" /\ pc' = "done"
       ELSE IF patternLength' > textLength'
       THEN outcome' = "Pattern length is greater" /\ pc' = "done"
       ELSE outcome' = outcome /\ pc' = "prepare"
    /\ UNCHANGED <<scan, fileContent, substring, file, fileMapping, view,
                   badCharShiftTable, chunkSize, extra, numThreads,
                   threadIndex, searchArgs, threads, worker, found_at>>

\* Validate without the oversized-pattern check of lines 241-245.
Validate_NoOversizeCheck ==
    /\ pc = "validate"
    /\ textLength' = strlen(fileContent)
    /\ patternLength' = strlen(substring)
    /\ IF textLength' = 0
       THEN outcome' = "File is empty" /\ pc' = "done"
       ELSE IF patternLength' = 0
       THEN outcome' = "Pattern is empty" /\ pc' = "done"
       ELSE outcome' = outcome /\ pc' = "prepare"
    /\ UNCHANGED <<scan, fileContent, substring, file, fileMapping, view,
                   badCharShiftTable, chunkSize, extra, numThreads,
                   threadIndex, searchArgs, threads, worker, found_at>>

\* Lines 227-245.
Validate ==
    /\ pc = "validate"
    /\ textLength' = strlen(fileContent)
    /\ patternLength' = strlen(substring)
    /\ IF textLength' = 0
       THEN outcome' = "File is empty" /\ pc' = "done"
       ELSE IF patternLength' = 0
       THEN outcome' = "Pattern is empty" /\ pc' = "done"
       ELSE IF patternLength' > textLength'
       THEN outcome' = "Pattern length is greater" /\ pc' = "done"
       ELSE outcome' = outcome /\ pc' = "prepare"
    /\ UNCHANGED <<scan, fileContent, substring, file, fileMapping, view,
                   badCharShiftTable, chunkSize, extra, numThreads,
                   threadIndex, searchArgs, threads, worker, found_at>>

\* Prepare with the test of line 261 as chunkSize <= patternLength.
Prepare_LessEq ==
    /\ pc = "prepare"
    /\ badCharShiftTable' = generateBadCharacterShiftTable(substring, patternLength)
    /\ IF textLength \div MAX_THREADS <= patternLength
       THEN chunkSize' = textLength /\ numThreads' = 1
       ELSE chunkSize' = textLength \div MAX_THREADS /\ numThreads' = MAX_THREADS
    /\ extra' = textLength % MAX_THREADS
    /\ threadIndex' = 0
    /\ pc' = "dispatch"
    /\ UNCHANGED <<scan, fileContent, substring, file, fileMapping, view, textLength,
                   patternLength, searchArgs, threads, worker, found_at, outcome>>

\* Lines 248-271.
Prepare ==
    /\ pc = "prepare"
    /\ badCharShiftTable' = generateBadCharacterShiftTable(substring, patternLength)
    /\ IF textLength \div MAX_THREADS < patternLength
       THEN chunkSize' = textLength /\ numThreads' = 1
       ELSE chunkSize' = textLength \div MAX_THREADS /\ numThreads' = MAX_THREADS
    /\ extra' = textLength % MAX_THREADS
    /\ threadIndex' = 0
    /\ pc' = "dispatch"
    /\ UNCHANGED <<scan, fileContent, substring, file, fileMapping, view, textLength,
                   patternLength, searchArgs, threads, worker, found_at, outcome>>

\* newArgs with every chunk but the last extended over the boundary by
\* patternLength - 1 bytes.
newArgs_Overlap(i) ==
    [text |-> i * chunkSize,
     textLength |-> IF i = numThreads - 1 THEN chunkSize + extra
                    ELSE chunkSize + patternLength - 1,
     patternLength |-> patternLength,
     badCharShiftTable |-> badCharShiftTable,
     found_at |-> -1]

\* Lines 289-294: the SearchArgs the loop body fills in for threadIndex.  The
\* pattern field of every SearchArgs points to substring and is not held.
newArgs(i) ==
    [text |-> i * chunkSize,
     textLength |-> IF i = numThreads - 1 THEN chunkSize + extra ELSE chunkSize,
     patternLength |-> patternLength,
     badCharShiftTable |-> badCharShiftTable,
     found_at |-> -1]

\* Dispatch with _beginthreadex returning a handle of a thread that never runs.
Dispatch_NoThread ==
    /\ pc = "dispatch"
    /\ threadIndex < numThreads
    /\ searchArgs' = [searchArgs EXCEPT ![threadIndex] = newArgs(threadIndex)]
    /\ threads' = [threads EXCEPT ![threadIndex] = "open"]
    /\ worker' = worker
    /\ IF threadIndex + 1 < numThreads
       THEN threadIndex' = threadIndex + 1 /\ pc' = pc
       ELSE threadIndex' = 0 /\ pc' = "join"
    /\ UNCHANGED <<scan, fileContent, substring, file, fileMapping, view, textLength,
                   patternLength, badCharShiftTable, chunkSize, extra, numThreads,
                   found_at, outcome>>

\* Dispatch with every iteration also filling in the first SearchArgs.
Dispatch_RefillFirst ==
    /\ pc = "dispatch"
    /\ threadIndex < numThreads
    /\ searchArgs' = [searchArgs EXCEPT ![threadIndex] = newArgs(threadIndex),
                                        ![0] = newArgs(threadIndex)]
    /\ threads' = [threads EXCEPT ![threadIndex] = "open"]
    /\ worker' = [worker EXCEPT ![threadIndex] = "running"]
    /\ IF threadIndex + 1 < numThreads
       THEN threadIndex' = threadIndex + 1 /\ pc' = pc
       ELSE threadIndex' = 0 /\ pc' = "join"
    /\ UNCHANGED <<scan, fileContent, substring, file, fileMapping, view, textLength,
                   patternLength, badCharShiftTable, chunkSize, extra, numThreads,
                   found_at, outcome>>

\* Lines 287-295, _beginthreadex succeeds.
Dispatch ==
    /\ pc = "dispatch"
    /\ threadIndex < numThreads
    /\ searchArgs' = [searchArgs EXCEPT ![threadIndex] = newArgs(threadIndex)]
    /\ threads' = [threads EXCEPT ![threadIndex] = "open"]
    /\ worker' = [worker EXCEPT ![threadIndex] = "running"]
    /\ IF threadIndex + 1 < numThreads
       THEN threadIndex' = threadIndex + 1 /\ pc' = pc
       ELSE threadIndex' = 0 /\ pc' = "join"
    /\ UNCHANGED <<scan, fileContent, substring, file, fileMapping, view, textLength,
                   patternLength, badCharShiftTable, chunkSize, extra, numThreads,
                   found_at, outcome>>

\* Lines 287-311, _beginthreadex returns 0.
DispatchFail ==
    /\ pc = "dispatch"
    /\ threadIndex < numThreads
    /\ searchArgs' = [searchArgs EXCEPT ![threadIndex] = newArgs(threadIndex)]
    /\ outcome' = "Thread creation failed"
    /\ threads' = [i \in Slots |-> IF i < threadIndex THEN "closed" ELSE threads[i]]
    /\ view' = "closed"
    /\ fileMapping' = "closed"
    /\ file' = "closed"
    /\ pc' = "done"
    /\ UNCHANGED <<scan, fileContent, substring, textLength,
                   patternLength, badCharShiftTable, chunkSize, extra, numThreads,
                   threadIndex, worker, found_at>>

\* Join with the test of line 323 as found_at > 0.
Join_ZeroMissed ==
    /\ pc = "join"
    /\ threadIndex < numThreads
    /\ worker[threadIndex] = "done"
    /\ threads' = [threads EXCEPT ![threadIndex] = "closed"]
    /\ found_at' = searchArgs[threadIndex].found_at
    /\ IF found_at' > 0
       THEN outcome' = "Found" /\ pc' = "done" /\ threadIndex' = threadIndex
       ELSE /\ outcome' = outcome
            /\ threadIndex' = threadIndex + 1
            /\ pc' = IF threadIndex + 1 < numThreads THEN "join" ELSE "finish"
    /\ UNCHANGED <<scan, fileContent, substring, file, fileMapping, view, textLength,
                   patternLength, badCharShiftTable, chunkSize, extra, numThreads,
                   searchArgs, worker>>

\* Lines 315-329: one iteration of the join loop.
Join ==
    /\ pc = "join"
    /\ threadIndex < numThreads
    /\ worker[threadIndex] = "done"          \* WaitForSingleObject returns
    /\ threads' = [threads EXCEPT ![threadIndex] = "closed"]
    /\ found_at' = searchArgs[threadIndex].found_at
    /\ IF found_at' >= 0
       THEN outcome' = "Found" /\ pc' = "done" /\ threadIndex' = threadIndex
       ELSE /\ outcome' = outcome
            /\ threadIndex' = threadIndex + 1
            /\ pc' = IF threadIndex + 1 < numThreads THEN "join" ELSE "finish"
    /\ UNCHANGED <<scan, fileContent, substring, file, fileMapping, view, textLength,
                   patternLength, badCharShiftTable, chunkSize, extra, numThreads,
                   searchArgs, worker>>

\* Lines 331-338.
ReportNotFound ==
    /\ pc = "finish"
    /\ outcome' = "not found"
    /\ view' = "closed"
    /\ fileMapping' = "closed"
    /\ file' = "closed"
    /\ pc' = "done"
    /\ UNCHANGED <<scan, fileContent, substring, textLength,
                   patternLength, badCharShiftTable, chunkSize, extra, numThreads,
                   threadIndex, searchArgs, threads, worker, found_at>>

\* search with every worker writing its result to the first SearchArgs.
search_SharedSlot(i) ==
    /\ worker[i] = "running"
    /\ pc /= "crashed"
    /\ \/ /\ \E r \in searchResults(fileContent, substring, searchArgs[i]) :
                searchArgs' = [searchArgs EXCEPT ![0].found_at = r]
          /\ worker' = [worker EXCEPT ![i] = "done"]
          /\ pc' = pc
       \/ /\ view = "closed"
          /\ pc' = "crashed"
          /\ UNCHANGED <<searchArgs, worker>>
    /\ UNCHANGED <<scan, fileContent, substring, file, fileMapping, view, textLength,
                   patternLength, badCharShiftTable, chunkSize, extra, numThreads,
                   threadIndex, threads, found_at, outcome>>

\* Lines 61-126: worker i runs search to its end.  A worker whose view has been
\* unmapped either had read all it needs and finishes, or its next read is an
\* access violation, which ends the process.
search(i) ==
    /\ worker[i] = "running"
    /\ pc /= "crashed"
    /\ \/ /\ \E r \in searchResults(fileContent, substring, searchArgs[i]) :
                searchArgs' = [searchArgs EXCEPT ![i].found_at = r]
          /\ worker' = [worker EXCEPT ![i] = "done"]
          /\ pc' = pc
       \/ /\ view = "closed"
          /\ pc' = "crashed"
          /\ UNCHANGED <<searchArgs, worker>>
    /\ UNCHANGED <<scan, fileContent, substring, file, fileMapping, view, textLength,
                   patternLength, badCharShiftTable, chunkSize, extra, numThreads,
                   threadIndex, threads, found_at, outcome>>

Worker == \E i \in Slots : search(i)

Next ==
    \/ CreateFile
    \/ CreateFileMapping
    \/ MapViewOfFile
    \/ Validate
    \/ Prepare
    \/ Dispatch
    \/ DispatchFail
    \/ Join
    \/ ReportNotFound
    \/ Worker

Spec == Init /\ [][Next]_vars

(***************************************************************************)
(* The buffer, the pattern and the occurrences the properties speak of.    *)
(***************************************************************************)
BufferLen == strlen(fileContent)
PatLen == strlen(substring)

Occurs(s) ==
    \A j \in 0..(PatLen - 1) : byteAt(fileContent, s + j) = byteAt(substring, j)

Occurrences == {s \in 0..(BufferLen - PatLen) : Occurs(s)}

\* The chunks of the partition: chunk i starts at i * chunkSize and ends where
\* the next one starts, the last one at the end of the buffer.
ChunkStart(i) == i * chunkSize
ChunkEnd(i) == IF i = numThreads - 1 THEN BufferLen ELSE (i + 1) * chunkSize

\* Occurrence s lies wholly inside one chunk.
InChunk(s) ==
    \E i \in 0..(numThreads - 1) : ChunkStart(i) <= s /\ s + PatLen <= ChunkEnd(i)

InChunkOccurrences == {s \in Occurrences : InChunk(s)}

MinOf(S) == CHOOSE x \in S : \A y \in S : x <= y

Searched == outcome \in {"Found", "not found"}

Dispatched == {i \in Slots : worker[i] /= "none"}

\* The position of the match the coordinator resolved on: the chunk's start
\* plus the local offset it read (the message printed carries no position).
ReportedPosition == searchArgs[threadIndex].text + found_at

\* C1: whenever the pattern occurs wholly inside a chunk, the search reports
\* Found at the leftmost such occurrence.
C1_FoundLeftmostInChunk ==
    (Searched /\ InChunkOccurrences /= {}) =>
        (outcome = "Found" /\ ReportedPosition = MinOf(InChunkOccurrences))

\* C2: once the chunk parameters are computed, the chunks handed out are
\* contiguous from offset 0 and their lengths sum to the buffer length.
C2_ChunksPartitionBuffer ==
    (numThreads >= 1) =>
        /\ newArgs(0).text = 0
        /\ \A i \in 0..(numThreads - 2) :
               newArgs(i).text + newArgs(i).textLength = newArgs(i + 1).text
        /\ newArgs(numThreads - 1).text + newArgs(numThreads - 1).textLength
              = textLength

\* C3: whenever the coordinator reads a result slot, every dispatched worker
\* has finished.
C3_ReadOnlyAfterAllJoined ==
    [][Join => \A i \in 0..(numThreads - 1) : worker[i] = "done"]_vars

\* C4: once thread creation has failed and the view is unmapped, no worker
\* dispatched before the failure is still running.
C4_NoWorkerRunsAfterUnmap ==
    (outcome = "Thread creation failed" /\ view = "closed") =>
        \A i \in Slots : worker[i] /= "running"

\* C5: when search_in_file has returned, no input-source resource is still held.
C5_AllReleasedOnReturn ==
    (pc = "done") =>
        (file /= "open" /\ fileMapping /= "open" /\ view /= "open")

RECURSIVE resolve(_)
resolve(i) ==
    IF i = numThreads
    THEN {<<"not found", -1>>}
    ELSE LET R == searchResults(fileContent, substring, searchArgs[i])
         IN  {<<"Found", searchArgs[i].text + r>> : r \in {x \in R : x >= 0}}
               \cup (IF -1 \in R THEN resolve(i + 1) ELSE {})

\* C7: the outcome of a search is a function of the buffer and the pattern.
C7_OutcomeDeterministic ==
    Searched =>
        <<outcome, IF outcome = "Found" THEN ReportedPosition ELSE -1>>
            = CHOOSE o \in resolve(0) : TRUE

\* C8: MAX_THREADS workers are used when floor(n / MAX_THREADS) >= m and one
\* otherwise; all of them are dispatched, each on a chunk of at least m bytes.
C8_WorkerCountPolicy ==
    /\ (numThreads >= 1) =>
          numThreads = (IF BufferLen \div MAX_THREADS >= PatLen THEN MAX_THREADS ELSE 1)
    /\ (pc \in {"join", "finish"} \/ Searched) =>
          Dispatched = 0..(numThreads - 1)
    /\ \A i \in Dispatched : searchArgs[i].textLength >= PatLen

C8_Witness ==
    /\ pc = "join"
    /\ Cardinality(Dispatched) = MAX_THREADS
    /\ BufferLen \div MAX_THREADS = PatLen

C8_WitnessSingle ==
    /\ pc = "join"
    /\ Cardinality(Dispatched) = 1
    /\ BufferLen >= MAX_THREADS

\* C9: with more than one chunk, a pattern none of whose occurrences lies
\* wholly inside a chunk is reported not found.
C9_StraddlingNotFound ==
    (numThreads > 1) =>
        \/ /\ \A i \in Dispatched : searchArgs[i].found_at < 0
           /\ outcome /= "Found"
        \/ InChunkOccurrences /= {}

C9_Witness ==
    /\ outcome = "not found"
    /\ numThreads > 1
    /\ Occurrences /= {}
    /\ InChunkOccurrences = {}

\* Validation has run: the view was mapped and the checks of lines 231-245 made.
ValidationRan == view /= "none" /\ pc \notin {"validate"}

NothingStarted ==
    /\ pc = "done"
    /\ badCharShiftTable = NoTable
    /\ Dispatched = {}
    /\ searchArgs = [i \in Slots |-> NoArgs]

\* C10: an empty buffer, or an empty pattern on a non-empty buffer, is
\* reported as such and ends the search before the table is built and before
\* any worker exists.
C10_ValidationErrors ==
    /\ (ValidationRan /\ BufferLen = 0) =>
          (outcome = "File is empty" /\ NothingStarted)
    /\ (ValidationRan /\ BufferLen > 0 /\ PatLen = 0) =>
          (outcome = "Pattern is empty" /\ NothingStarted)

C10_Witness ==
    /\ ValidationRan
    /\ BufferLen > 0
    /\ PatLen = 0
    /\ outcome = "Pattern is empty"

C10_WitnessEmptyFile ==
    /\ ValidationRan
    /\ BufferLen = 0
    /\ Len(fileContent) > 0
    /\ outcome = "File is empty"

\* C11: a pattern longer than a non-empty buffer is reported as not to be
\* found, and the search ends before the table is built and before any worker
\* exists.
C11_OversizedPattern ==
    (ValidationRan /\ BufferLen > 0 /\ PatLen > BufferLen) =>
        (outcome = "Pattern length is greater" /\ NothingStarted)

C11_Witness ==
    /\ ValidationRan
    /\ BufferLen > 0
    /\ PatLen > BufferLen
    /\ outcome = "Pattern length is greater"

\* C12: the found_at of slot i changes only when the coordinator fills the slot
\* in before worker i exists and in the one step in which worker i finishes;
\* that step changes no other slot, and a finished worker's slot never changes.
C12_SingleWriterSlots ==
    [][\A i \in Slots :
          /\ (searchArgs'[i].found_at /= searchArgs[i].found_at) =>
                (worker[i] = "none" \/ (worker[i] = "running" /\ worker'[i] = "done"))
          /\ (worker[i] = "running" /\ worker'[i] = "done") =>
                \A j \in Slots \ {i} :
                    searchArgs'[j].found_at = searchArgs[j].found_at
          /\ (worker[i] = "done") =>
                (worker'[i] = "done"
                   /\ searchArgs'[i].found_at = searchArgs[i].found_at)]_vars

C12_Witness ==
    \E i, j \in Slots :
        /\ i < j
        /\ worker[i] = "done" /\ worker[j] = "done"
        /\ searchArgs[i].found_at >= 0 /\ searchArgs[j].found_at >= 0

(***************************************************************************)
(* search and generateBadCharacterShiftTable as functions of their          *)
(* arguments: one call of search on a chunk of a buffer, followed one       *)
(* iteration of its outer loop at a time.                                   *)
(***************************************************************************)

\* The patterns search can be given: search_in_file rejects the empty one.
Patterns == SeqsUpTo(PatternBytes, MaxPat) \ {<<>>}

\* A buffer, a pattern, and a chunk (offset and length) of the buffer in slot 0.
ScanInit ==
    /\ \E content \in SeqsUpTo(FileBytes, MaxLen), pattern \in Patterns :
          /\ fileContent = content
          /\ substring = pattern \o <<0>>
          /\ patternLength = Len(pattern)
          /\ \E text \in 0..Len(content) :
                \E length \in 0..(Len(content) - text) :
                   searchArgs = [i \in Slots |->
                       IF i = 0
                       THEN [text |-> text, textLength |-> length,
                             patternLength |-> Len(pattern),
                             badCharShiftTable |-> NoTable, found_at |-> -1]
                       ELSE NoArgs]
    /\ pc = "table"
    /\ file = "open" /\ fileMapping = "open" /\ view = "open"
    /\ textLength = 0
    /\ badCharShiftTable = NoTable
    /\ chunkSize = 0 /\ extra = 0 /\ numThreads = 0
    /\ threadIndex = 0
    /\ threads = [i \in Slots |-> "none"]
    /\ worker = [i \in Slots |-> "none"]
    /\ found_at = -1
    /\ outcome = "none"
    /\ scan = [i \in Slots |-> NoScan]

\* Lines 248-249 and 294-295: the table is built from the pattern and copied into
\* the SearchArgs; the call of search begins.
buildTable ==
    /\ pc = "table"
    /\ badCharShiftTable' = generateBadCharacterShiftTable(substring, patternLength)
    /\ searchArgs' = [searchArgs EXCEPT ![0].badCharShiftTable = badCharShiftTable']
    /\ worker' = [worker EXCEPT ![0] = "running"]
    /\ pc' = "search"
    /\ UNCHANGED <<scan, fileContent, substring, file, fileMapping, view, textLength,
                   patternLength, chunkSize, extra, numThreads, threadIndex,
                   threads, found_at, outcome>>

\* searchStep with the shift of line 116 allowed to be 0.
searchStep_NoMinimumShift(i) ==
    /\ pc = "search"
    /\ worker[i] = "running"
    /\ LET args == searchArgs[i]
           patternShift == scan[i].patternShift
       IN  IF patternShift <= args.textLength - args.patternLength
           THEN LET patternIndex == innerLoop(fileContent, args.text, substring,
                                              patternShift, args.patternLength - 1)
                IN  IF patternIndex < 0
                    THEN /\ searchArgs' = [searchArgs EXCEPT ![i].found_at = patternShift]
                         /\ worker' = [worker EXCEPT ![i] = "done"]
                         /\ scan' = [scan EXCEPT ![i].iterations = @ + 1]
                    ELSE /\ \E g \in tableLookup(args.badCharShiftTable,
                                      byteAt(fileContent,
                                             args.text + patternShift + patternIndex)) :
                               scan' = [scan EXCEPT ![i] =
                                   [patternShift |-> patternShift + Max(0, patternIndex - g),
                                    iterations |-> @.iterations + 1]]
                         /\ UNCHANGED <<searchArgs, worker>>
           ELSE /\ searchArgs' = [searchArgs EXCEPT ![i].found_at = -1]
                /\ worker' = [worker EXCEPT ![i] = "done"]
                /\ scan' = scan
    /\ UNCHANGED <<fileContent, substring, pc, file, fileMapping, view, textLength,
                   patternLength, badCharShiftTable, chunkSize, extra, numThreads,
                   threadIndex, threads, found_at, outcome>>

\* Lines 88-123: the loop test of line 88 and, when it passes, one iteration of
\* the outer loop; when it fails, lines 123-124.
searchStep(i) ==
    /\ pc = "search"
    /\ worker[i] = "running"
    /\ LET args == searchArgs[i]
           patternShift == scan[i].patternShift
       IN  IF patternShift <= args.textLength - args.patternLength
           THEN LET patternIndex == innerLoop(fileContent, args.text, substring,
                                              patternShift, args.patternLength - 1)
                IN  IF patternIndex < 0
                    THEN /\ searchArgs' = [searchArgs EXCEPT ![i].found_at = patternShift]
                         /\ worker' = [worker EXCEPT ![i] = "done"]
                         /\ scan' = [scan EXCEPT ![i].iterations = @ + 1]
                    ELSE /\ \E g \in tableLookup(args.badCharShiftTable,
                                      byteAt(fileContent,
                                             args.text + patternShift + patternIndex)) :
                               scan' = [scan EXCEPT ![i] =
                                   [patternShift |-> patternShift + Max(1, patternIndex - g),
                                    iterations |-> @.iterations + 1]]
                         /\ UNCHANGED <<searchArgs, worker>>
           ELSE /\ searchArgs' = [searchArgs EXCEPT ![i].found_at = -1]
                /\ worker' = [worker EXCEPT ![i] = "done"]
                /\ scan' = scan
    /\ UNCHANGED <<fileContent, substring, pc, file, fileMapping, view, textLength,
                   patternLength, badCharShiftTable, chunkSize, extra, numThreads,
                   threadIndex, threads, found_at, outcome>>

ScanWorker == \E i \in Slots : searchStep(i)

ScanNext ==
    \/ buildTable
    \/ ScanWorker

ScanSpec == ScanInit /\ [][ScanNext]_vars

\* Byte k of the chunk of slot i, and the chunk's naive search.
ChunkByte(i, k) == byteAt(fileContent, searchArgs[i].text + k)

MatchAt(i, s) ==
    \A k \in 0..(searchArgs[i].patternLength - 1) :
        byteAt(substring, k) = ChunkByte(i, s + k)

NaiveMatches(i) ==
    {s \in 0..(searchArgs[i].textLength - searchArgs[i].patternLength) : MatchAt(i, s)}

\* The pattern index at which the iteration about to run stops comparing.
NextMismatch(i) ==
    innerLoop(fileContent, searchArgs[i].text, substring, scan[i].patternShift,
              searchArgs[i].patternLength - 1)

Iterating(i) ==
    /\ pc = "search"
    /\ worker[i] = "running"
    /\ scan[i].patternShift <= searchArgs[i].textLength - searchArgs[i].patternLength

\* C13: when search returns, found_at is the smallest offset of the chunk at
\* which the pattern occurs, and -1 exactly when it occurs nowhere in the chunk.
C13_ScanEqualsNaive ==
    \A i \in Slots :
        (pc = "search" /\ worker[i] = "done") =>
            searchArgs[i].found_at =
                IF NaiveMatches(i) = {} THEN -1 ELSE MinOf(NaiveMatches(i))

\* C14: the built table maps every byte value to the greatest index at which
\* the pattern holds it, and to -1 when the pattern does not hold it.
C14_TableCorrect ==
    (pc = "search") =>
        \A c \in 0..(UNIQUE_CHARS - 1) :
            LET at == {k \in 0..(patternLength - 1) : byteAt(substring, k) = c}
            IN  /\ (at = {}) => entry(badCharShiftTable, c) = -1
                /\ (at /= {}) =>
                      /\ entry(badCharShiftTable, c) \in at
                      /\ \A k \in at : k <= entry(badCharShiftTable, c)

C14_Witness ==
    /\ pc = "search"
    /\ patternLength >= 2
    /\ byteAt(substring, 0) = byteAt(substring, 1)
    /\ entry(badCharShiftTable, byteAt(substring, 0)) = 1
    /\ entry(badCharShiftTable, 0) = -1

\* C15: on a mismatch the scanner indexes the table with a value in 0..255, the
\* one the builder used for the mismatching byte, and so reads the builder's
\* entry for that byte.
C15_LookupIndexInTable ==
    \A i \in Slots :
        (Iterating(i) /\ NextMismatch(i) >= 0) =>
            LET c == ChunkByte(i, scan[i].patternShift + NextMismatch(i))
            IN  /\ SignedChar(c) \in 0..(UNIQUE_CHARS - 1)
                /\ SignedChar(c) = c
                /\ tableLookup(searchArgs[i].badCharShiftTable, c)
                      = {entry(searchArgs[i].badCharShiftTable, c)}

\* The most outer-loop iterations C16 allows a scan of the chunk of slot i.
MaxIterations(i) ==
    Max(0, searchArgs[i].textLength - searchArgs[i].patternLength + 1)

LiveInputs ==
    (SeqsUpTo(FileBytes, MaxLen - 1) \X SeqsUpTo(PatternBytes, MaxPat))
        \cup { <<(<<97, 98>> \o Fill(97, 2 * MAX_THREADS - 2)), <<98, 97>>>> }

LiveInit ==
    /\ \E in \in LiveInputs :
          /\ fileContent = in[1]
          /\ substring = in[2] \o <<0>>
    /\ pc = "open"
    /\ file = "none" /\ fileMapping = "none" /\ view = "none"
    /\ textLength = 0 /\ patternLength = 0
    /\ badCharShiftTable = NoTable
    /\ chunkSize = 0 /\ extra = 0 /\ numThreads = 0
    /\ threadIndex = 0
    /\ searchArgs = [i \in Slots |-> NoArgs]
    /\ threads = [i \in Slots |-> "none"]
    /\ worker = [i \in Slots |-> "none"]
    /\ found_at = -1
    /\ outcome = "none"
    /\ scan = [i \in Slots |-> NoScan]

\* search_in_file with every _beginthreadex succeeding.
FairNext ==
    \/ CreateFile
    \/ CreateFileMapping
    \/ MapViewOfFile
    \/ Validate
    \/ Prepare
    \/ Dispatch
    \/ Join
    \/ ReportNotFound
    \/ Worker

\* Whenever the coordinator or a started thread can take a step, one is taken.
FairSpec == LiveInit /\ [][FairNext]_vars /\ WF_vars(FairNext)

C18_ReadsInsideBuffer ==
    \A i \in Dispatched :
        \A k \in textReads(fileContent, substring, searchArgs[i]) :
            /\ k \in 0..(searchArgs[i].textLength - 1)
            /\ searchArgs[i].text + k < BufferLen

\* C19: no step changes the buffer or the pattern; once worker i is started
\* the only field of its SearchArgs that ever changes is found_at, in the step
\* in which worker i finishes, and that step changes no other SearchArgs and
\* nothing of the coordinator.
C19_Frame ==
    [][/\ fileContent' = fileContent
       /\ substring' = substring
       /\ \A i \in Slots :
             /\ (worker[i] /= "none") =>
                   /\ searchArgs'[i] =
                         [searchArgs[i] EXCEPT !.found_at = searchArgs'[i].found_at]
                   /\ (searchArgs'[i] /= searchArgs[i]) =>
                         (worker[i] = "running" /\ worker'[i] = "done")
             /\ (worker[i] = "running" /\ worker'[i] = "done") =>
                   /\ \A j \in Slots \ {i} : searchArgs'[j] = searchArgs[j]
                   /\ UNCHANGED <<pc, file, fileMapping, view, textLength,
                                  patternLength, badCharShiftTable, chunkSize, extra,
                                  numThreads, threadIndex, threads, found_at,
                                  outcome>>]_vars

C19_Witness ==
    \E i, j \in Slots :
        /\ pc = "dispatch"
        /\ worker[i] = "done"
        /\ worker[j] = "running"
        /\ searchArgs[i].found_at >= 0

====
